---- MODULE Spec2Model ----
(***************************************************************************)
(* A model of the round-trip translation experiment:                       *)
(*   src/src/agents/pipeline.py     TranslationPipeline                    *)
(*   src/src/input/error_injector.py ErrorInjector, calculate_actual_...   *)
(*   src/src/input/generator.py      TestCaseGenerator                     *)
(* Texts are sequences of one-character strings, so that strip(), split()  *)
(* and " ".join() are computed and not assumed.  Rates are rationals       *)
(* num/den, so that int(total_words * error_rate) is an integer floor.     *)
(***************************************************************************)
EXTENDS Integers, Sequences, FiniteSets, TLC

VARIABLES
    \* ---- TranslationPipeline (pipeline.py)
    max_retries,    \* self.max_retries, read from the configuration
    outage,         \* the items (positions) for which the service refuses every request
    test_cases,     \* the argument of process_batch
    results,        \* process_batch's local list `results`
    idx,            \* enumerate(test_cases, 1): how many test cases were taken
    pc,             \* where the control of process_batch / process / _call_agent is
    agent,          \* 0, or the number n of the stage "agent<n>" being run
    attempt,        \* _call_agent's loop variable
    input_text,     \* _call_agent's argument: the user content of the request
    english_input,  \* process's argument
    test_id,        \* process's argument
    french, hebrew, final_english,   \* process's locals
    ret,            \* the value the last _call_agent returned
    error,          \* the exception in flight, or NoError
    \* history of the current _call_agent / process invocation
    response,       \* message.content[0].text of the last answered request
    nCalls,         \* client.messages.create calls issued by this _call_agent
    sleeps,         \* time.sleep calls of this _call_agent, in order
    order,          \* the _call_agent calls of this process call, in order
    stageOut,       \* the values those calls returned, in order
    procCalls,      \* client.messages.create calls issued by this process call
    itemSaw,        \* per item taken: did a request succeed / did one raise
    \* ---- ErrorInjector.inject_errors (error_injector.py)
    inj_pc,         \* "ready" before the call, "done" after it
    text,           \* the argument `text`
    error_rate,     \* the argument `error_rate`, a rational num/den
    selected,       \* the 0-based word indices held by the local `error_indices`
    inj_ret,        \* the returned pair (corrupted text, count)
    \* ---- TestCaseGenerator.generate_test_cases (generator.py)
    gen_pc,         \* "loop" inside the loops, "done" after the return
    base_sentences, \* self.base_sentences
    error_rates,    \* the argument `error_rates`
    sentence_i,     \* position of the outer loop in base_sentences (1-based)
    rate_i,         \* position of the inner loop in error_rates (1-based)
    next_test_id,   \* the local `test_id`
    generated,      \* the local list `test_cases`
    \* ---- TestCaseGenerator.__init__ / _load_base_sentences (generator.py)
    load_pc,        \* "open", "reading", then "failed" or "constructed"
    file,           \* the file at base_sentences_file: does it exist, its lines
    line_no,        \* how many lines the loop `for line in f` has taken
    sentences,      \* the local list `sentences`
    load_error,     \* the exception the constructor raised, or "none"
    \* ---- calculate_actual_error_rate (error_injector.py)
    rate_pc,        \* "ready" before the call, "done" after it
    rate_original,  \* the argument `original`
    rate_corrupted, \* the argument `corrupted`
    rate_ret,       \* the returned fraction, or the exception raised
    \* ---- SemanticAnalyzer (embeddings.py)
    cache,          \* self.cache: text -> the cached vector object
    encodeCalls,    \* the texts self.model.encode was called with, in order
    embedded,       \* the texts get_embedding was called with so far
    handedOut,      \* per text, the vector objects get_embedding returned for it
    lastCall,       \* the last call made on the analyzer
    lastResult,     \* what that call returned or raised
    measured,       \* the distances returned so far, with their arguments
    opCount,        \* the number of calls made on the analyzer
    \* ---- TranslationPipeline.__init__ / _load_skills (pipeline.py)
    skill_pc,       \* "loading" in _load_skills, "constructed" after __init__
    agent_files,    \* config["agents"] in order: per agent, is its skill file there
    skill_i,        \* how many agents the loop of _load_skills has taken
    skills,         \* the dictionary `skills` / self.skills
    requests,       \* the requests sent by _call_agent: the agent and the system prompt
    \* ---- threads inside SemanticAnalyzer.get_embedding (embeddings.py)
    th_pc,          \* per thread, the line of get_embedding it is about to run
    th_text,        \* per thread, the argument `text`
    th_emb,         \* per thread, the local `embedding`
    th_ret,         \* per thread, the object returned
    \* ---- two runs of the generator, each in a process of its own
    run_seed,       \* the seed both runs construct their TestCaseGenerator with
    run_sentences,  \* self.base_sentences, the same in both runs
    run_rates,      \* the argument error_rates, the same in both runs
    run_rounds,     \* how many generate_test_cases calls each run makes
    rng,            \* per run, the state of the process-wide generator of `random`
    run_pc,         \* per run: "new", "calling" (constructed), "done"
    run_done,       \* per run, the inject_errors calls its generator has made
    run_out,        \* per run, the test cases produced so far
    run_foreign     \* another ErrorInjector was constructed or used in run 2

pipeVars == <<max_retries, outage, test_cases, results, idx, pc, agent, attempt,
              input_text, english_input, test_id, french, hebrew,
              final_english, ret, error, response, nCalls, sleeps, order,
              stageOut, procCalls, itemSaw>>

injVars == <<inj_pc, text, error_rate, selected, inj_ret>>

genVars == <<gen_pc, base_sentences, error_rates, sentence_i, rate_i,
             next_test_id, generated>>

loadVars == <<load_pc, file, line_no, sentences, load_error>>

rateVars == <<rate_pc, rate_original, rate_corrupted, rate_ret>>

embVars == <<cache, encodeCalls, embedded, handedOut, lastCall, lastResult,
             measured, opCount>>

skillVars == <<skill_pc, agent_files, skill_i, skills, requests>>

thVars == <<th_pc, th_text, th_emb, th_ret>>

runVars == <<run_seed, run_sentences, run_rates, run_rounds, rng, run_pc,
             run_done, run_out, run_foreign>>

vars == <<pipeVars, injVars, genVars, loadVars, rateVars, embVars, skillVars, thVars, runVars>>

(***************************************************************************)
(* Bounds of the model.                                                    *)
(***************************************************************************)
MaxRetries == 3      \* api.max_retries ranges over 0..MaxRetries
MaxBatch == 2        \* process_batch is given 0..MaxBatch test cases
MaxWords == 3        \* inject_errors is given sentences of 0..MaxWords words
RateDen == 4         \* error rates are the fractions n/RateDen in [0, 1]
MaxSentences == 2    \* the generator holds 0..MaxSentences base sentences
MaxRates == 2        \* generate_test_cases is given 0..MaxRates rates
MaxLines == 3        \* the base-sentence file holds 0..MaxLines lines
MaxOps == 3          \* 0..MaxOps calls are made on one SemanticAnalyzer
NumThreads == 2      \* the threads that call get_embedding on one SemanticAnalyzer
RngStates == 4       \* the generator of `random` has the states 0..RngStates-1

(***************************************************************************)
(* Helpers.                                                                *)
(***************************************************************************)
SetMin(S) == CHOOSE x \in S : \A y \in S : x <= y
SetMax(S) == CHOOSE x \in S : \A y \in S : x >= y

Whitespace == {" ", "\n"}

\* a plausible slip: lstrip() for strip()
StripLeft(s) ==
    LET keep == {i \in 1..Len(s) : s[i] \notin Whitespace}
    IN  IF keep = {} THEN <<>> ELSE SubSeq(s, SetMin(keep), Len(s))

\* str.strip(): the text without its leading and trailing whitespace
Strip(s) ==
    LET keep == {i \in 1..Len(s) : s[i] \notin Whitespace}
    IN  IF keep = {} THEN <<>> ELSE SubSeq(s, SetMin(keep), SetMax(keep))

NoText == <<>>
NoError == [agent |-> 0, attempts |-> 0]

\* the default of api.delay_between_requests
Delay == 1
\* the default of api.model
Model == "claude-3-5-sonnet-20241022"

(***************************************************************************)
(* Inputs of the pipeline.                                                 *)
(***************************************************************************)
\* message.content[0].text of a successful response
Responses == { <<" ", "f", "\n">>, <<"g">> }

\* test_case.corrupted of the sample test cases, by position in the batch
CorruptedText(i) == IF i % 2 = 1 THEN <<"T", "x", "t">> ELSE <<" ", "o", "n">>

\* a TestCase as the generator or a test builds it (generator.py TestCase)
SampleCase(id, corrupted) ==
    [id |-> id, original |-> <<"T", "e", "x", "t">>, corrupted |-> corrupted,
     target_error_rate |-> [num |-> 1, den |-> 4],
     actual_error_rate |-> [num |-> 1, den |-> 1],
     word_count |-> 1, num_errors |-> 1]

\* the lists handed to process_batch: ids count up from 0 (tests) or 1 (generator)
BatchInputs ==
    UNION { { [i \in 1..n |-> SampleCase(base + i - 1, CorruptedText(i))] :
                base \in {0, 1} } :
            n \in 0..MaxBatch }

(***************************************************************************)
(* TranslationPipeline._call_agent, process, process_batch                 *)
(***************************************************************************)
\* the exception of line 81: "Agent {agent_name} failed after {max_retries} attempts"
StageError(agent_name) == [agent |-> agent_name, attempts |-> max_retries]

\* a plausible slip: 2 * attempt for 2 ** attempt
WaitTimeLinear(att) == 2 * att

\* wait_time of line 82
WaitTime(att) == 2 ^ att

\* what _call_agent returns when range(max_retries) is empty (line 86)
FallThrough == NoText

\* the result dictionary of process (lines 121-132); the wall-clock duration is left out
ProcessResult ==
    [test_id |-> test_id, original |-> english_input, french |-> french,
     hebrew |-> hebrew, final |-> final_english,
     metadata |-> [success |-> TRUE, model |-> Model]]

\* lines 154-160: the result augmented with the test case's fields
WithTestCase(result, tc) ==
    [test_id |-> result.test_id, original |-> result.original,
     french |-> result.french, hebrew |-> result.hebrew, final |-> result.final,
     metadata |-> result.metadata,
     test_case |-> [id |-> tc.id, original_clean |-> tc.original,
                    target_error_rate |-> tc.target_error_rate,
                    actual_error_rate |-> tc.actual_error_rate,
                    word_count |-> tc.word_count]]

\* lines 164-168: the record appended when process raised
FailureResult(tc, e) ==
    [test_id |-> tc.id, error |-> e, metadata |-> [success |-> FALSE]]

\* _call_agent(agent_name, text) is entered: lines 54-60.  With an empty
\* range(max_retries) the loop body never runs.
EnterAgent(agent_name, content, earlier) ==
    /\ agent' = agent_name
    /\ input_text' = content
    /\ attempt' = 0
    /\ nCalls' = 0
    /\ sleeps' = <<>>
    /\ order' = Append(earlier, [agent |-> agent_name, content |-> content])
    /\ pc' = IF 0 < max_retries THEN "calling" ELSE "loop_over"

PipeInit ==
    /\ max_retries \in 0..MaxRetries
    /\ test_cases \in BatchInputs
    /\ outage \in SUBSET (1..Len(test_cases))
    /\ results = <<>>
    /\ idx = 0
    /\ pc = "batch_loop"
    /\ agent = 0
    /\ attempt = 0
    /\ input_text = NoText
    /\ english_input = NoText
    /\ test_id = 0
    /\ french = NoText
    /\ hebrew = NoText
    /\ final_english = NoText
    /\ ret = NoText
    /\ error = NoError
    /\ response = NoText
    /\ nCalls = 0
    /\ sleeps = <<>>
    /\ order = <<>>
    /\ stageOut = <<>>
    /\ procCalls = 0
    /\ itemSaw = <<>>

\* process_batch lines 147-153 and process lines 99-106: the next test case is
\* taken and process calls _call_agent("agent1", english_input)
BatchTake ==
    /\ pc = "batch_loop"
    /\ idx < Len(test_cases)
    /\ idx' = idx + 1
    /\ english_input' = test_cases[idx + 1].corrupted
    /\ test_id' = test_cases[idx + 1].id
    /\ french' = NoText
    /\ hebrew' = NoText
    /\ final_english' = NoText
    /\ ret' = NoText
    /\ error' = NoError
    /\ response' = NoText
    /\ stageOut' = <<>>
    /\ procCalls' = 0
    /\ itemSaw' = Append(itemSaw, [ok |-> FALSE, raised |-> FALSE])
    /\ EnterAgent(1, test_cases[idx + 1].corrupted, <<>>)
    /\ UNCHANGED <<max_retries, outage, test_cases, results>>
    /\ UNCHANGED <<injVars, genVars, loadVars, rateVars, embVars, skillVars, thVars, runVars>>

\* lines 62-77: the request is answered; the text is stripped, the rate-limit
\* sleep is taken and the translation returned
ServiceAnswers ==
    /\ pc = "calling"
    /\ idx \notin outage
    /\ \E resp \in Responses :
        /\ response' = resp
        /\ ret' = Strip(resp)
        /\ stageOut' = Append(stageOut, Strip(resp))
    /\ nCalls' = nCalls + 1
    /\ procCalls' = procCalls + 1
    /\ sleeps' = Append(sleeps, [kind |-> "rate_limit", t |-> Delay])
    /\ itemSaw' = [itemSaw EXCEPT ![idx].ok = TRUE]
    /\ pc' = "agent_returned"
    /\ UNCHANGED <<max_retries, outage, test_cases, results, idx, agent, attempt,
                   input_text, english_input, test_id, french, hebrew,
                   final_english, error, order>>
    /\ UNCHANGED <<injVars, genVars, loadVars, rateVars, embVars, skillVars, thVars, runVars>>

\* a plausible slip: the last failure is swallowed and "" returned, so that
\* process goes on to the next stage
ServiceRaisesAndGoesOn ==
    /\ pc = "calling"
    /\ nCalls' = nCalls + 1
    /\ procCalls' = procCalls + 1
    /\ itemSaw' = [itemSaw EXCEPT ![idx].raised = TRUE]
    /\ IF attempt = max_retries - 1
         THEN /\ error' = StageError(agent)
              /\ ret' = NoText
              /\ stageOut' = Append(stageOut, NoText)
              /\ pc' = "agent_returned"
              /\ UNCHANGED <<attempt, sleeps>>
         ELSE /\ sleeps' = Append(sleeps, [kind |-> "backoff", t |-> WaitTime(attempt)])
              /\ attempt' = attempt + 1
              /\ UNCHANGED <<error, pc, ret, stageOut>>
    /\ UNCHANGED <<max_retries, outage, test_cases, results, idx, agent, input_text,
                   english_input, test_id, french, hebrew, final_english,
                   response, order>>
    /\ UNCHANGED <<injVars, genVars, loadVars, rateVars, embVars, skillVars, thVars, runVars>>

\* lines 79-84: the request raised; either the stage error is raised (last
\* attempt), which process does not catch, or the back-off sleep is taken and
\* the loop goes on
ServiceRaises ==
    /\ pc = "calling"
    /\ nCalls' = nCalls + 1
    /\ procCalls' = procCalls + 1
    /\ itemSaw' = [itemSaw EXCEPT ![idx].raised = TRUE]
    /\ IF attempt = max_retries - 1
         THEN /\ error' = StageError(agent)
              /\ pc' = "process_raised"
              /\ UNCHANGED <<attempt, sleeps>>
         ELSE /\ sleeps' = Append(sleeps, [kind |-> "backoff", t |-> WaitTime(attempt)])
              /\ attempt' = attempt + 1
              /\ UNCHANGED <<error, pc>>
    /\ UNCHANGED <<max_retries, outage, test_cases, results, idx, agent, input_text,
                   english_input, test_id, french, hebrew, final_english, ret,
                   response, order, stageOut>>
    /\ UNCHANGED <<injVars, genVars, loadVars, rateVars, embVars, skillVars, thVars, runVars>>

\* line 86: range(max_retries) was empty, no request was made: "" is returned
AgentFallsThrough ==
    /\ pc = "loop_over"
    /\ ret' = FallThrough
    /\ stageOut' = Append(stageOut, FallThrough)
    /\ pc' = "agent_returned"
    /\ UNCHANGED <<max_retries, outage, test_cases, results, idx, agent, attempt,
                   input_text, english_input, test_id, french, hebrew,
                   final_english, error, response, nCalls, sleeps, order,
                   procCalls, itemSaw>>
    /\ UNCHANGED <<injVars, genVars, loadVars, rateVars, embVars, skillVars, thVars, runVars>>

\* a plausible slip: stage 3 is fed stage 1's output
NextStageFromFrench ==
    /\ pc = "agent_returned"
    /\ agent \in {1, 2}
    /\ french' = IF agent = 1 THEN ret ELSE french
    /\ hebrew' = IF agent = 2 THEN ret ELSE hebrew
    /\ EnterAgent(agent + 1, french', order)
    /\ UNCHANGED <<max_retries, outage, test_cases, results, idx, english_input, test_id,
                   final_english, ret, error, response, stageOut, procCalls,
                   itemSaw>>
    /\ UNCHANGED <<injVars, genVars, loadVars, rateVars, embVars, skillVars, thVars, runVars>>

\* process lines 106-116: the returned value is assigned to french (hebrew) and
\* the next stage is called on it
NextStage ==
    /\ pc = "agent_returned"
    /\ agent \in {1, 2}
    /\ french' = IF agent = 1 THEN ret ELSE french
    /\ hebrew' = IF agent = 2 THEN ret ELSE hebrew
    /\ EnterAgent(agent + 1, ret, order)
    /\ UNCHANGED <<max_retries, outage, test_cases, results, idx, english_input, test_id,
                   final_english, ret, error, response, stageOut, procCalls,
                   itemSaw>>
    /\ UNCHANGED <<injVars, genVars, loadVars, rateVars, embVars, skillVars, thVars, runVars>>

\* process lines 116-132: final_english is assigned and the result returned
ProcessReturns ==
    /\ pc = "agent_returned"
    /\ agent = 3
    /\ final_english' = ret
    /\ pc' = "process_returned"
    /\ UNCHANGED <<max_retries, outage, test_cases, results, idx, agent, attempt,
                   input_text, english_input, test_id, french, hebrew, ret,
                   error, response, nCalls, sleeps, order, stageOut, procCalls,
                   itemSaw>>
    /\ UNCHANGED <<injVars, genVars, loadVars, rateVars, embVars, skillVars, thVars, runVars>>

\* process_batch lines 154-161
BatchAppend ==
    /\ pc = "process_returned"
    /\ results' = Append(results, WithTestCase(ProcessResult, test_cases[idx]))
    /\ pc' = "batch_loop"
    /\ UNCHANGED <<max_retries, outage, test_cases, idx, agent, attempt, input_text,
                   english_input, test_id, french, hebrew, final_english, ret,
                   error, response, nCalls, sleeps, order, stageOut, procCalls,
                   itemSaw>>
    /\ UNCHANGED <<injVars, genVars, loadVars, rateVars, embVars, skillVars, thVars, runVars>>

\* a plausible slip: the failed item is logged and not recorded
BatchCatchDrops ==
    /\ pc = "process_raised"
    /\ pc' = "batch_loop"
    /\ UNCHANGED <<max_retries, outage, test_cases, results, idx, agent, attempt,
                   input_text, english_input, test_id, french, hebrew,
                   final_english, ret, error, response, nCalls, sleeps, order,
                   stageOut, procCalls, itemSaw>>
    /\ UNCHANGED <<injVars, genVars, loadVars, rateVars, embVars, skillVars, thVars, runVars>>

\* process_batch lines 162-168: the exception of process is caught
BatchCatch ==
    /\ pc = "process_raised"
    /\ results' = Append(results, FailureResult(test_cases[idx], error))
    /\ pc' = "batch_loop"
    /\ UNCHANGED <<max_retries, outage, test_cases, idx, agent, attempt, input_text,
                   english_input, test_id, french, hebrew, final_english, ret,
                   error, response, nCalls, sleeps, order, stageOut, procCalls,
                   itemSaw>>
    /\ UNCHANGED <<injVars, genVars, loadVars, rateVars, embVars, skillVars, thVars, runVars>>

\* process_batch line 170
BatchReturn ==
    /\ pc = "batch_loop"
    /\ idx = Len(test_cases)
    /\ pc' = "batch_done"
    /\ UNCHANGED <<max_retries, outage, test_cases, results, idx, agent, attempt,
                   input_text, english_input, test_id, french, hebrew,
                   final_english, ret, error, response, nCalls, sleeps, order,
                   stageOut, procCalls, itemSaw>>
    /\ UNCHANGED <<injVars, genVars, loadVars, rateVars, embVars, skillVars, thVars, runVars>>

PipeNext ==
    \/ BatchTake
    \/ ServiceAnswers
    \/ ServiceRaises
    \/ AgentFallsThrough
    \/ NextStage
    \/ ProcessReturns
    \/ BatchAppend
    \/ BatchCatch
    \/ BatchReturn


(***************************************************************************)
(* TranslationPipeline.__init__, _load_skills and the system prompt of     *)
(* _call_agent                                                             *)
(***************************************************************************)
\* the text of a skill file
SkillTexts == { <<"E", "N", ">", "F", "R">>, <<>> }

\* one entry of config["agents"]: the skill file is there with some text, or not
AgentFile == {[exists |-> FALSE, content |-> <<>>]}
             \cup {[exists |-> TRUE, content |-> c] : c \in SkillTexts}

\* the names agent1, agent2, agent3 as the numbers 1..3
AgentNames == 1..3

NoSkills == [a \in {} |-> <<>>]

\* line 58, the fixed tail of the system prompt
TranslateInstruction == "Please translate the following text according to the instructions above."

\* lines 54-58: self.skills.get(agent_name, "") and the system prompt built on it
SystemPrompt(loaded, agent_name) ==
    LET skill_prompt == IF agent_name \in DOMAIN loaded THEN loaded[agent_name] ELSE <<>>
    IN  [skill |-> skill_prompt, tail |-> TranslateInstruction]

SkillInit ==
    /\ skill_pc = "loading"
    /\ agent_files \in [AgentNames -> AgentFile]
    /\ skill_i = 0
    /\ skills = NoSkills
    /\ requests = <<>>

SkillIdle ==
    /\ skill_pc = "idle"
    /\ agent_files = [a \in AgentNames |-> [exists |-> FALSE, content |-> <<>>]]
    /\ skill_i = 0
    /\ skills = NoSkills
    /\ requests = <<>>

\* lines 36-40: one agent of the configuration; a file that is not there is
\* passed over
LoadSkill ==
    /\ skill_pc = "loading"
    /\ skill_i < Cardinality(AgentNames)
    /\ skill_i' = skill_i + 1
    /\ skills' = IF agent_files[skill_i + 1].exists
                   THEN ((skill_i + 1) :> agent_files[skill_i + 1].content) @@ skills
                   ELSE skills
    /\ UNCHANGED <<skill_pc, agent_files, requests>>
    /\ UNCHANGED <<pipeVars, injVars, genVars, loadVars, rateVars, embVars, thVars, runVars>>

\* line 41 and __init__ line 31: the dictionary is returned and kept
SkillsLoaded ==
    /\ skill_pc = "loading"
    /\ skill_i = Cardinality(AgentNames)
    /\ skill_pc' = "constructed"
    /\ UNCHANGED <<agent_files, skill_i, skills, requests>>
    /\ UNCHANGED <<pipeVars, injVars, genVars, loadVars, rateVars, embVars, thVars, runVars>>

\* process lines 106-116 with _call_agent lines 54-73: the next stage sends
\* its request
StageRequest ==
    /\ skill_pc = "constructed"
    /\ Len(requests) < Cardinality(AgentNames)
    /\ requests' = Append(requests,
                          [agent |-> Len(requests) + 1,
                           system |-> SystemPrompt(skills, Len(requests) + 1)])
    /\ UNCHANGED <<skill_pc, agent_files, skill_i, skills>>
    /\ UNCHANGED <<pipeVars, injVars, genVars, loadVars, rateVars, embVars, thVars, runVars>>

SkillNext == LoadSkill \/ SkillsLoaded \/ StageRequest

(***************************************************************************)
(* Text helpers: str.split() and " ".join()                                *)
(***************************************************************************)
SetOfSeq(q) == {q[i] : i \in 1..Len(q)}

Max2(a, b) == IF a >= b THEN a ELSE b
Min2(a, b) == IF a <= b THEN a ELSE b

\* str.split(): the maximal runs of non-whitespace characters, in order
RECURSIVE SplitFrom(_, _, _)
SplitFrom(s, i, word) ==
    IF i > Len(s)
      THEN (IF word = <<>> THEN <<>> ELSE <<word>>)
      ELSE IF s[i] \in Whitespace
             THEN (IF word = <<>> THEN <<>> ELSE <<word>>) \o SplitFrom(s, i + 1, <<>>)
             ELSE SplitFrom(s, i + 1, Append(word, s[i]))

Split(s) == SplitFrom(s, 1, <<>>)

\* " ".join(words)
RECURSIVE Join(_)
Join(words) ==
    IF words = <<>> THEN <<>>
    ELSE IF Len(words) = 1 THEN words[1]
    ELSE words[1] \o <<" ">> \o Join(Tail(words))

(***************************************************************************)
(* ErrorInjector (error_injector.py).  The draws of the random module are  *)
(* nondeterministic choices over the values the call can return.           *)
(***************************************************************************)
\* the characters of line 64
Punctuation == {".", ",", "!", "?", ";", ":"}

\* a plausible slip: a blank in the string random.choice draws from
LowercaseAndSpace == {"z", " "}

\* what random.choice("abcdefghijklmnopqrstuvwxyz") returns (lines 109, 115),
\* cut down to one letter; the sample words hold it at some positions and
\* other letters at others, so a drawn letter may or may not equal the
\* letter in place
Lowercase == {"z"}

\* _swap_characters with pos = random.randint(0, len(word) - 2)
SwapCharacters(word, pos) ==
    IF Len(word) < 2 THEN word
    ELSE [word EXCEPT ![pos + 1] = word[pos + 2], ![pos + 2] = word[pos + 1]]

\* _delete_character with pos = random.randint(0, len(word) - 1)
DeleteCharacter(word, pos) ==
    IF Len(word) < 2 THEN word
    ELSE SubSeq(word, 1, pos) \o SubSeq(word, pos + 2, Len(word))

\* _insert_character with pos = random.randint(0, len(word)) and the drawn char
InsertCharacter(word, pos, char) ==
    SubSeq(word, 1, pos) \o <<char>> \o SubSeq(word, pos + 1, Len(word))

\* _replace_character with pos = random.randint(0, len(word) - 1) and the drawn char
ReplaceCharacter(word, pos, char) ==
    SubSeq(word, 1, pos) \o <<char>> \o SubSeq(word, pos + 2, Len(word))

\* lines 72-86: every value the chosen edit can give for `word`
Edits(word) ==
    {SwapCharacters(word, pos) : pos \in 0..(Len(word) - 2)}
    \cup {DeleteCharacter(word, pos) : pos \in 0..(Len(word) - 1)}
    \cup {InsertCharacter(word, pos, c) : pos \in 0..Len(word), c \in Lowercase}
    \cup {ReplaceCharacter(word, pos, c) : pos \in 0..(Len(word) - 1), c \in Lowercase}

\* a plausible slip: the length is not checked again once the punctuation is
\* set aside
CorruptWordNoRecheck(word) ==
    IF Len(word) < 3 THEN {word}
    ELSE LET has_punct == word[Len(word)] \in Punctuation
             punct == IF has_punct THEN <<word[Len(word)]>> ELSE <<>>
             bare == IF has_punct THEN SubSeq(word, 1, Len(word) - 1) ELSE word
         IN  {corrupted \o punct : corrupted \in Edits(bare)}

\* _corrupt_word: every value it can return for `word`
CorruptWord(word) ==
    IF Len(word) < 3 THEN {word}
    ELSE LET has_punct == word[Len(word)] \in Punctuation
             punct == IF has_punct THEN <<word[Len(word)]>> ELSE <<>>
             bare == IF has_punct THEN SubSeq(word, 1, Len(word) - 1) ELSE word
         IN  IF Len(bare) < 3 THEN {bare \o punct}
             ELSE {corrupted \o punct : corrupted \in Edits(bare)}

\* a plausible slip: the floor of one error is left out
NumErrorsNoFloor(total_words, rate) == (total_words * rate.num) \div rate.den

\* line 33: max(1, int(total_words * error_rate))
NumErrors(total_words, rate) == Max2(1, (total_words * rate.num) \div rate.den)

\* random.sample(range(n), k): the lists of k distinct indices below n
Samples(n, k) ==
    {q \in [1..k -> 0..(n - 1)] : \A i, j \in 1..k : i # j => q[i] # q[j]}

\* lines 36-39: the lists error_indices can be
ErrorIndices(total_words, num_errors) ==
    IF num_errors >= total_words
      THEN {[i \in 1..total_words |-> i - 1]}
      ELSE Samples(total_words, num_errors)

\* a plausible slip: the loop runs over every word, not over error_indices
RECURSIVE ApplyErrorsEverywhere(_, _, _)
ApplyErrorsEverywhere(words, indices, k) ==
    IF k > Len(words) THEN {words}
    ELSE UNION { ApplyErrorsEverywhere([words EXCEPT ![k] = w], indices, k + 1) :
                   w \in CorruptWord(words[k]) }

\* lines 42-43: the word lists the loop can end with, from entry k of indices on
RECURSIVE ApplyErrors(_, _, _)
ApplyErrors(words, indices, k) ==
    IF k > Len(indices) THEN {words}
    ELSE UNION { ApplyErrors([words EXCEPT ![indices[k] + 1] = w], indices, k + 1) :
                   w \in CorruptWord(words[indices[k] + 1]) }

\* what a division by zero raises
ZeroDivisionError == [raised |-> "ZeroDivisionError"]

\* n / d on numbers: the fraction, or the exception for d = 0
Divide(n, d) == IF d = 0 THEN ZeroDivisionError ELSE [num |-> n, den |-> d]

\* a plausible slip: line 138 without its `if orig_words else 0.0`
CalculateActualErrorRateNoGuard(original, corrupted) ==
    LET orig_words == Split(original)
        corr_words == Split(corrupted)
    IN  IF Len(orig_words) # Len(corr_words)
          THEN Divide(Min2(Len(orig_words), Len(corr_words)),
                      Max2(Len(orig_words), Len(corr_words)))
          ELSE Divide(Cardinality({i \in 1..Len(orig_words) :
                                     orig_words[i] # corr_words[i]}),
                      Len(orig_words))

\* calculate_actual_error_rate, the result a rational num/den (0.0 is 0/1)
CalculateActualErrorRate(original, corrupted) ==
    LET orig_words == Split(original)
        corr_words == Split(corrupted)
    IN  IF Len(orig_words) # Len(corr_words)
          THEN Divide(Min2(Len(orig_words), Len(corr_words)),
                      Max2(Len(orig_words), Len(corr_words)))
          ELSE IF orig_words # <<>>
                 THEN Divide(Cardinality({i \in 1..Len(orig_words) :
                                            orig_words[i] # corr_words[i]}),
                             Len(orig_words))
                 ELSE [num |-> 0, den |-> 1]

(***************************************************************************)
(* Inputs of inject_errors.                                                *)
(***************************************************************************)
\* sample words: too short; too short once the full stop is set aside; long
\* enough, of one letter; long enough, with a full stop
Vocabulary == { <<"a">>, <<"a", "b", ".">>, <<"z", "z", "z">>,
                <<"a", "b", "z", ".">> }

RECURSIVE WordLists(_)
WordLists(n) ==
    IF n = 0 THEN {<<>>}
    ELSE {Append(q, w) : q \in WordLists(n - 1), w \in Vocabulary}

\* the texts: the sample words joined by single spaces; those of up to two
\* words also set in more whitespace
Padded(words) ==
    IF words = <<>> THEN <<" ">>
    ELSE <<" ">> \o Join([i \in 1..Len(words) |->
                            IF i < Len(words) THEN Append(words[i], "\n") ELSE words[i]])

Sentences ==
    UNION { {Join(q) : q \in WordLists(n)} : n \in 0..MaxWords }
    \cup UNION { {Padded(q) : q \in WordLists(n)} : n \in 0..Min2(MaxWords, 2) }

Rates == {[num |-> n, den |-> RateDen] : n \in 0..RateDen}

NoResult == [text |-> <<>>, count |-> -1]

InjInit ==
    /\ inj_pc = "ready"
    /\ text \in Sentences
    /\ error_rate \in Rates
    /\ selected = {}
    /\ inj_ret = NoResult

InjIdle ==
    /\ inj_pc = "idle"
    /\ text = <<>>
    /\ error_rate = [num |-> 0, den |-> 1]
    /\ selected = {}
    /\ inj_ret = NoResult

\* inject_errors(txt, rate), lines 31-45: every pair it can return, each
\* with the indices that were selected
InjectErrorsResults(txt, rate) ==
    LET words == Split(txt)
        total_words == Len(words)
        num_errors == NumErrors(total_words, rate)
    IN  UNION { { [text |-> Join(out), count |-> Len(indices),
                   indices |-> SetOfSeq(indices)] :
                  out \in ApplyErrors(words, indices, 1) } :
                indices \in ErrorIndices(total_words, num_errors) }

\* one call inject_errors(text, error_rate)
InjectErrors ==
    /\ inj_pc = "ready"
    /\ \E r \in InjectErrorsResults(text, error_rate) :
          /\ selected' = r.indices
          /\ inj_ret' = [text |-> r.text, count |-> r.count]
    /\ inj_pc' = "done"
    /\ UNCHANGED <<text, error_rate>>
    /\ UNCHANGED <<pipeVars, genVars, loadVars, rateVars, embVars, skillVars, thVars, runVars>>

(***************************************************************************)
(* One call of calculate_actual_error_rate (error_injector.py)             *)
(***************************************************************************)
\* the texts compared: the sample words joined by single spaces, and the
\* shorter ones set in more whitespace; the empty text is among them
RateTexts ==
    UNION { {Join(q) : q \in WordLists(n)} : n \in 0..(MaxWords - 1) }
    \cup UNION { {Padded(q) : q \in WordLists(n)} : n \in 0..Min2(MaxWords - 1, 2) }

NoRate == [num |-> 0, den |-> 1]

RateInit ==
    /\ rate_pc = "ready"
    /\ rate_original \in RateTexts
    /\ rate_corrupted \in RateTexts
    /\ rate_ret = NoRate

RateIdle ==
    /\ rate_pc = "idle"
    /\ rate_original = <<>>
    /\ rate_corrupted = <<>>
    /\ rate_ret = NoRate

\* calculate_actual_error_rate(original, corrupted), lines 130-138
CalculateRate ==
    /\ rate_pc = "ready"
    /\ rate_ret' = CalculateActualErrorRate(rate_original, rate_corrupted)
    /\ rate_pc' = "done"
    /\ UNCHANGED <<rate_original, rate_corrupted>>
    /\ UNCHANGED <<pipeVars, injVars, genVars, loadVars, embVars, skillVars, thVars, runVars>>

(***************************************************************************)
(* TestCaseGenerator.generate_test_cases (generator.py)                    *)
(***************************************************************************)
\* the sample corpus, cycled: a short and a long word; two short words, one
\* of them short once the full stop is set aside; two long words
CorpusAt(i) ==
    IF i % 3 = 0 THEN Join(<< <<"a">>, <<"z", "z", "z">> >>)
    ELSE IF i % 3 = 1 THEN Join(<< <<"a", "b", ".">>, <<"a">> >>)
    ELSE Join(<< <<"z", "z", "z">>, <<"z", "z", "z", ".">> >>)

\* self.base_sentences: n consecutive sentences of the corpus
SentenceLists ==
    {[i \in 1..n |-> CorpusAt(from + i)] : n \in 0..MaxSentences, from \in 0..2}

\* the argument error_rates: n rates, ascending from 0 or descending from 1
RateLists ==
    {[i \in 1..n |-> [num |-> Min2(RateDen, 2 * (i - 1)), den |-> RateDen]] :
        n \in 0..MaxRates}
    \cup {[i \in 1..n |-> [num |-> Max2(0, RateDen - 2 * (i - 1)), den |-> RateDen]] :
        n \in 0..MaxRates}

GenInit ==
    /\ gen_pc = "loop"
    /\ base_sentences \in SentenceLists
    /\ error_rates \in RateLists
    /\ sentence_i = 1
    /\ rate_i = 1
    /\ next_test_id = 1
    /\ generated = <<>>

GenIdle ==
    /\ gen_pc = "idle"
    /\ base_sentences = <<>>
    /\ error_rates = <<>>
    /\ sentence_i = 1
    /\ rate_i = 1
    /\ next_test_id = 1
    /\ generated = <<>>

\* a plausible slip: len(sentence) for len(sentence.split())
MakeTestCaseCountsCharacters(id, sentence, rate, injected) ==
    [id |-> id,
     original |-> sentence,
     corrupted |-> injected.text,
     target_error_rate |-> rate,
     actual_error_rate |-> CalculateActualErrorRate(sentence, injected.text),
     word_count |-> Len(sentence),
     num_errors |-> injected.count]

\* lines 78-86: the TestCase of one iteration
MakeTestCase(id, sentence, rate, injected) ==
    [id |-> id,
     original |-> sentence,
     corrupted |-> injected.text,
     target_error_rate |-> rate,
     actual_error_rate |-> CalculateActualErrorRate(sentence, injected.text),
     word_count |-> Len(Split(sentence)),
     num_errors |-> injected.count]

\* lines 65-89: one iteration of the inner loop
GenIterate ==
    /\ gen_pc = "loop"
    /\ sentence_i <= Len(base_sentences)
    /\ rate_i <= Len(error_rates)
    /\ \E injected \in InjectErrorsResults(base_sentences[sentence_i],
                                            error_rates[rate_i]) :
          generated' = Append(generated,
                              MakeTestCase(next_test_id, base_sentences[sentence_i],
                                           error_rates[rate_i], injected))
    /\ next_test_id' = next_test_id + 1
    /\ IF rate_i < Len(error_rates)
         THEN rate_i' = rate_i + 1 /\ sentence_i' = sentence_i
         ELSE rate_i' = 1 /\ sentence_i' = sentence_i + 1
    /\ UNCHANGED <<gen_pc, base_sentences, error_rates>>
    /\ UNCHANGED <<pipeVars, injVars, loadVars, rateVars, embVars, skillVars, thVars, runVars>>

\* line 91: both loops are over (at once when error_rates is empty)
GenReturn ==
    /\ gen_pc = "loop"
    /\ sentence_i > Len(base_sentences) \/ error_rates = <<>>
    /\ gen_pc' = "done"
    /\ UNCHANGED <<base_sentences, error_rates, sentence_i, rate_i,
                   next_test_id, generated>>
    /\ UNCHANGED <<pipeVars, injVars, loadVars, rateVars, embVars, skillVars, thVars, runVars>>

GenNext == GenIterate \/ GenReturn

(***************************************************************************)
(* The module-level generator of `random` (error_injector.py).  Its state  *)
(* is one number; every draw is a function of the state and moves it on.   *)
(* Two runs of the generator are followed, each in a process of its own,   *)
(* so each with a generator state of its own; run 1 is followed first.     *)
(***************************************************************************)
Runs == 1..2

Seeds == {42, 7}

\* a plausible slip: self.seed is kept and random.seed is not called
RandomSeedNotCalled(s, seed) == s

\* random.seed(seed), line 18: the state after it, from the state s before it
RandomSeed(s, seed) == seed % RngStates

\* a draw below n (random.randint, random.choice, one step of random.sample)
RandBelow(s, n) == [value |-> s % n, rng |-> (s + 1) % RngStates]

\* random.sample(range(n), k), line 39: k draws without replacement from pool
RECURSIVE SampleFrom(_, _, _, _)
SampleFrom(s, pool, k, picked) ==
    IF k = 0 THEN [value |-> picked, rng |-> s]
    ELSE LET d == RandBelow(s, Len(pool))
             j == d.value + 1
         IN  SampleFrom(d.rng, SubSeq(pool, 1, j - 1) \o SubSeq(pool, j + 1, Len(pool)),
                        k - 1, Append(picked, pool[j]))

\* lines 72-86 from the state s: the edit drawn, its position and its letter
EditWith(s, word) ==
    LET error_type == RandBelow(s, 4)
        letter == CHOOSE c \in Lowercase : TRUE
    IN  IF error_type.value = 0
          THEN LET pos == RandBelow(error_type.rng, Len(word) - 1)
               IN  [value |-> SwapCharacters(word, pos.value), rng |-> pos.rng]
        ELSE IF error_type.value = 1
          THEN LET pos == RandBelow(error_type.rng, Len(word))
               IN  [value |-> DeleteCharacter(word, pos.value), rng |-> pos.rng]
        ELSE IF error_type.value = 2
          THEN LET pos == RandBelow(error_type.rng, Len(word) + 1)
                   char == RandBelow(pos.rng, Cardinality(Lowercase))
               IN  [value |-> InsertCharacter(word, pos.value, letter), rng |-> char.rng]
        ELSE LET pos == RandBelow(error_type.rng, Len(word))
                 char == RandBelow(pos.rng, Cardinality(Lowercase))
             IN  [value |-> ReplaceCharacter(word, pos.value, letter), rng |-> char.rng]

\* _corrupt_word from the state s: the word returned and the state after it
CorruptWordWith(s, word) ==
    IF Len(word) < 3 THEN [value |-> word, rng |-> s]
    ELSE LET has_punct == word[Len(word)] \in Punctuation
             punct == IF has_punct THEN <<word[Len(word)]>> ELSE <<>>
             bare == IF has_punct THEN SubSeq(word, 1, Len(word) - 1) ELSE word
         IN  IF Len(bare) < 3 THEN [value |-> bare \o punct, rng |-> s]
             ELSE LET e == EditWith(s, bare)
                  IN  [value |-> e.value \o punct, rng |-> e.rng]

\* lines 42-43 from the state s, from entry k of indices on
RECURSIVE ApplyErrorsWith(_, _, _, _)
ApplyErrorsWith(s, words, indices, k) ==
    IF k > Len(indices) THEN [value |-> words, rng |-> s]
    ELSE LET w == CorruptWordWith(s, words[indices[k] + 1])
         IN  ApplyErrorsWith(w.rng, [words EXCEPT ![indices[k] + 1] = w.value],
                             indices, k + 1)

\* inject_errors(txt, rate), lines 31-45, from the state s: the pair returned
\* and the state after the call
InjectErrorsWith(s, txt, rate) ==
    LET words == Split(txt)
        total_words == Len(words)
        num_errors == NumErrors(total_words, rate)
        error_indices ==
            IF num_errors >= total_words
              THEN [value |-> [i \in 1..total_words |-> i - 1], rng |-> s]
              ELSE SampleFrom(s, [i \in 1..total_words |-> i - 1], num_errors, <<>>)
        out == ApplyErrorsWith(error_indices.rng, words, error_indices.value, 1)
    IN  [text |-> Join(out.value), count |-> Len(error_indices.value), rng |-> out.rng]

\* generator.py lines 65-89: the inject_errors calls of one generate_test_cases
\* call, in order, each with the id of its test case
CallsOfOne(sents, rates) ==
    [k \in 1..(Len(sents) * Len(rates)) |->
        [id |-> k,
         sentence |-> sents[((k - 1) \div Len(rates)) + 1],
         rate |-> rates[((k - 1) % Len(rates)) + 1]]]

\* the inject_errors calls of `rounds` generate_test_cases calls
RECURSIVE CallsOf(_, _, _)
CallsOf(sents, rates, rounds) ==
    IF rounds = 0 THEN <<>>
    ELSE CallsOfOne(sents, rates) \o CallsOf(sents, rates, rounds - 1)

\* the base sentences of the runs: sentences of the corpus, those with two
\* long words first
RunSentenceLists == {[i \in 1..n |-> CorpusAt(i + 1)] : n \in 0..MaxSentences}

RunInit ==
    /\ run_seed \in Seeds
    /\ run_sentences \in RunSentenceLists
    /\ run_rates \in RateLists
    /\ run_rounds \in 1..2
    /\ rng \in [Runs -> 0..(RngStates - 1)]
    /\ run_pc = [r \in Runs |-> "new"]
    /\ run_done = [r \in Runs |-> 0]
    /\ run_out = [r \in Runs |-> <<>>]
    /\ run_foreign = FALSE

RunIdle ==
    /\ run_seed = 0
    /\ run_sentences = <<>>
    /\ run_rates = <<>>
    /\ run_rounds = 0
    /\ rng = <<>>
    /\ run_pc = <<>>
    /\ run_done = <<>>
    /\ run_out = <<>>
    /\ run_foreign = FALSE

\* TestCaseGenerator.__init__ (generator.py line 36) constructs its
\* ErrorInjector, whose __init__ seeds the generator of the process
RunConstruct ==
    \E r \in Runs :
        /\ run_pc[r] = "new"
        /\ r = 1 \/ run_pc[1] = "done"
        /\ rng' = [rng EXCEPT ![r] = RandomSeed(rng[r], run_seed)]
        /\ run_pc' = [run_pc EXCEPT ![r] = "calling"]
        /\ UNCHANGED <<run_seed, run_sentences, run_rates, run_rounds, run_done,
                       run_out, run_foreign>>
        /\ UNCHANGED <<pipeVars, injVars, genVars, loadVars, rateVars, embVars, skillVars, thVars>>

\* generator.py lines 67-89: the next inject_errors call of the run and the
\* test case made of it
RunInject ==
    \E r \in Runs :
        LET calls == CallsOf(run_sentences, run_rates, run_rounds)
        IN  /\ run_pc[r] = "calling"
            /\ run_done[r] < Len(calls)
            /\ LET call == calls[run_done[r] + 1]
                   injected == InjectErrorsWith(rng[r], call.sentence, call.rate)
               IN  /\ run_out' = [run_out EXCEPT ![r] =
                                    Append(@, MakeTestCase(call.id, call.sentence, call.rate,
                                                           [text |-> injected.text,
                                                            count |-> injected.count]))]
                   /\ rng' = [rng EXCEPT ![r] = injected.rng]
            /\ run_done' = [run_done EXCEPT ![r] = @ + 1]
            /\ UNCHANGED <<run_seed, run_sentences, run_rates, run_rounds, run_pc,
                           run_foreign>>
            /\ UNCHANGED <<pipeVars, injVars, genVars, loadVars, rateVars, embVars, skillVars, thVars>>

\* the last generate_test_cases call of the run has returned
RunFinish ==
    \E r \in Runs :
        /\ run_pc[r] = "calling"
        /\ run_done[r] = Len(CallsOf(run_sentences, run_rates, run_rounds))
        /\ run_pc' = [run_pc EXCEPT ![r] = "done"]
        /\ UNCHANGED <<run_seed, run_sentences, run_rates, run_rounds, rng,
                       run_done, run_out, run_foreign>>
        /\ UNCHANGED <<pipeVars, injVars, genVars, loadVars, rateVars, embVars, skillVars, thVars>>

\* between two inject_errors calls of run 2 another ErrorInjector (or
\* TestCaseGenerator) is constructed in the same process: line 18 again
OtherConstruct ==
    /\ run_pc[2] = "calling"
    /\ ~run_foreign
    /\ 0 < run_done[2]
    /\ run_done[2] < Len(CallsOf(run_sentences, run_rates, run_rounds))
    /\ \E seed \in Seeds : rng' = [rng EXCEPT ![2] = RandomSeed(rng[2], seed)]
    /\ run_foreign' = TRUE
    /\ UNCHANGED <<run_seed, run_sentences, run_rates, run_rounds, run_pc,
                   run_done, run_out>>
    /\ UNCHANGED <<pipeVars, injVars, genVars, loadVars, rateVars, embVars, skillVars, thVars>>

\* between two inject_errors calls of run 2 another ErrorInjector of the same
\* process makes an inject_errors call, drawing from the same generator
OtherInject ==
    /\ run_pc[2] = "calling"
    /\ ~run_foreign
    /\ 0 < run_done[2]
    /\ run_done[2] < Len(CallsOf(run_sentences, run_rates, run_rounds))
    /\ \E i \in 0..2 :
         rng' = [rng EXCEPT ![2] =
                   InjectErrorsWith(rng[2], CorpusAt(i), [num |-> 0, den |-> 1]).rng]
    /\ run_foreign' = TRUE
    /\ UNCHANGED <<run_seed, run_sentences, run_rates, run_rounds, run_pc,
                   run_done, run_out>>
    /\ UNCHANGED <<pipeVars, injVars, genVars, loadVars, rateVars, embVars, skillVars, thVars>>

RunNext == RunConstruct \/ RunInject \/ RunFinish \/ OtherConstruct \/ OtherInject

(***************************************************************************)
(* SemanticAnalyzer (embeddings.py).  A vector object is a pair of the     *)
(* identity `obj` of the array (the number of the encode call that made    *)
(* it) and its components `vec`.  Distances are kept exact: a cosine       *)
(* distance as the pair (dot, norms) standing for 1 - dot / sqrt(norms),   *)
(* a Euclidean distance as the squared length it is the root of.           *)
(***************************************************************************)
\* the texts handed to the analyzer; "a" and "a " differ only in a blank
EmbTexts == {"a", "a ", "b"}

\* the metric names handed to calculate_distance
Metrics == {"cosine", "euclidean", "manhattan", "invalid_metric"}

\* self.model.encode(text, convert_to_numpy=True): the same vector for the
\* same text, never the zero vector
Encode(t) ==
    CASE t = "a" -> <<1, 0>>
      [] t = "a " -> <<1, 1>>
      [] OTHER -> <<-1, 2>>

EmptyCache == [t \in {} |-> 0]

\* np.dot(u, v)
RECURSIVE Dot(_, _)
Dot(u, v) == IF u = <<>> THEN 0 ELSE u[1] * v[1] + Dot(Tail(u), Tail(v))

\* np.linalg.norm(u), squared
NormSq(u) == Dot(u, u)

\* a plausible slip: line 63 with the norm of emb1 taken twice
CosineDistanceOneNorm(emb1, emb2) ==
    [metric |-> "cosine", dot |-> Dot(emb1, emb2),
     norms |-> NormSq(emb1) * NormSq(emb1)]

\* lines 63-68: 1 - dot(emb1, emb2) / (norm(emb1) * norm(emb2))
CosineDistance(emb1, emb2) ==
    [metric |-> "cosine", dot |-> Dot(emb1, emb2),
     norms |-> NormSq(emb1) * NormSq(emb2)]

\* lines 84-86: norm(emb1 - emb2)
EuclideanDistance(emb1, emb2) ==
    [metric |-> "euclidean",
     squared |-> NormSq([i \in 1..Len(emb1) |-> emb1[i] - emb2[i]])]

\* a plausible slip: the new embedding is returned and never cached
GetEmbeddingNoStore(c, calls, t) ==
    IF t \in DOMAIN c
      THEN [cache |-> c, calls |-> calls, ret |-> c[t]]
      ELSE LET embedding == [obj |-> Len(calls) + 1, vec |-> Encode(t)]
           IN  [cache |-> c, calls |-> Append(calls, t), ret |-> embedding]

\* get_embedding(t), lines 34-43, on the cache c after the encode calls
\* `calls`: the cache and the encode calls after it, and the object returned
GetEmbedding(c, calls, t) ==
    IF t \in DOMAIN c
      THEN [cache |-> c, calls |-> calls, ret |-> c[t]]
      ELSE LET embedding == [obj |-> Len(calls) + 1, vec |-> Encode(t)]
           IN  [cache |-> (t :> embedding) @@ c, calls |-> Append(calls, t),
                ret |-> embedding]

\* calculate_cosine_distance / calculate_euclidean_distance: the two
\* embeddings are fetched, text1 first, and the distance computed
BothEmbeddings(c, calls, text1, text2) ==
    LET g1 == GetEmbedding(c, calls, text1)
        g2 == GetEmbedding(g1.cache, g1.calls, text2)
    IN  [cache |-> g2.cache, calls |-> g2.calls, emb1 |-> g1.ret, emb2 |-> g2.ret]

\* the ValueError of line 105
UnknownMetric(metric) ==
    [kind |-> "ValueError", message |-> <<"Unknown metric: ", metric>>]

\* a plausible slip: the cosine distance for every metric that is not "euclidean"
CalculateDistanceCosineByDefault(c, calls, text1, text2, metric) ==
    LET both == BothEmbeddings(c, calls, text1, text2)
    IN  IF metric = "euclidean"
          THEN [cache |-> both.cache, calls |-> both.calls,
                fetched |-> <<both.emb1, both.emb2>>,
                result |-> [kind |-> "distance",
                            value |-> EuclideanDistance(both.emb1.vec, both.emb2.vec)]]
          ELSE [cache |-> both.cache, calls |-> both.calls,
                fetched |-> <<both.emb1, both.emb2>>,
                result |-> [kind |-> "distance",
                            value |-> CosineDistance(both.emb1.vec, both.emb2.vec)]]

\* calculate_distance(text1, text2, metric), lines 100-105
CalculateDistance(c, calls, text1, text2, metric) ==
    LET both == BothEmbeddings(c, calls, text1, text2)
    IN  IF metric = "cosine"
          THEN [cache |-> both.cache, calls |-> both.calls,
                fetched |-> <<both.emb1, both.emb2>>,
                result |-> [kind |-> "distance",
                            value |-> CosineDistance(both.emb1.vec, both.emb2.vec)]]
          ELSE IF metric = "euclidean"
                 THEN [cache |-> both.cache, calls |-> both.calls,
                       fetched |-> <<both.emb1, both.emb2>>,
                       result |-> [kind |-> "distance",
                                   value |-> EuclideanDistance(both.emb1.vec,
                                                               both.emb2.vec)]]
                 ELSE [cache |-> c, calls |-> calls, fetched |-> <<>>,
                       result |-> UnknownMetric(metric)]

\* lines 118-122 from pair k on: one calculate_distance per pair, the first
\* exception ends the call
RECURSIVE BatchFrom(_, _, _, _, _, _, _)
BatchFrom(c, calls, text_pairs, metric, k, distances, fetched) ==
    IF k > Len(text_pairs)
      THEN [cache |-> c, calls |-> calls, fetched |-> fetched,
            result |-> [kind |-> "distances", value |-> distances]]
      ELSE LET d == CalculateDistance(c, calls, text_pairs[k][1], text_pairs[k][2],
                                      metric)
           IN  IF d.result.kind # "distance"
                 THEN [cache |-> d.cache, calls |-> d.calls, fetched |-> fetched,
                       result |-> d.result]
                 ELSE BatchFrom(d.cache, d.calls, text_pairs, metric, k + 1,
                                Append(distances, d.result.value),
                                Append(fetched, d.fetched))

\* a plausible slip: the embeddings of the first pair are fetched before the
\* loop, whatever the metric
BatchCalculateDistancesWarmUp(c, calls, text_pairs, metric) ==
    IF text_pairs = <<>> THEN BatchFrom(c, calls, text_pairs, metric, 1, <<>>, <<>>)
    ELSE LET both == BothEmbeddings(c, calls, text_pairs[1][1], text_pairs[1][2])
         IN  BatchFrom(both.cache, both.calls, text_pairs, metric, 1, <<>>, <<>>)

\* batch_calculate_distances(text_pairs, metric), lines 118-122
BatchCalculateDistances(c, calls, text_pairs, metric) ==
    BatchFrom(c, calls, text_pairs, metric, 1, <<>>, <<>>)

\* the pair lists handed to batch_calculate_distances
PairLists ==
    { <<>>,
      << <<"a", "b">>, <<"b", "a ">> >> }

NoCall == [op |-> "none", text1 |-> "", text2 |-> "", metric |-> ""]
NoOutcome == [kind |-> "none"]

\* SemanticAnalyzer.__init__, line 21
EmbInit ==
    /\ cache = EmptyCache
    /\ encodeCalls = <<>>
    /\ embedded = {}
    /\ handedOut = [t \in EmbTexts |-> {}]
    /\ lastCall = NoCall
    /\ lastResult = NoOutcome
    /\ measured = {}
    /\ opCount = 0

EmbIdle ==
    /\ cache = EmptyCache
    /\ encodeCalls = <<>>
    /\ embedded = {}
    /\ handedOut = [t \in EmbTexts |-> {}]
    /\ lastCall = NoCall
    /\ lastResult = NoOutcome
    /\ measured = {}
    /\ opCount = -1

\* a call get_embedding(t) from outside
CallGetEmbedding ==
    /\ opCount \in 0..(MaxOps - 1)
    /\ \E t \in EmbTexts :
         LET g == GetEmbedding(cache, encodeCalls, t)
         IN  /\ cache' = g.cache
             /\ encodeCalls' = g.calls
             /\ embedded' = embedded \cup {t}
             /\ handedOut' = [handedOut EXCEPT ![t] = @ \cup {g.ret.obj}]
             /\ lastCall' = [op |-> "get_embedding", text1 |-> t, text2 |-> "",
                             metric |-> ""]
             /\ lastResult' = [kind |-> "vector", value |-> g.ret]
    /\ opCount' = opCount + 1
    /\ UNCHANGED measured
    /\ UNCHANGED <<pipeVars, injVars, genVars, loadVars, rateVars, skillVars, thVars, runVars>>

\* a call calculate_distance(text1, text2, metric) from outside
CallCalculateDistance ==
    /\ opCount \in 0..(MaxOps - 1)
    /\ \E text1 \in EmbTexts, text2 \in EmbTexts, metric \in Metrics :
         LET d == CalculateDistance(cache, encodeCalls, text1, text2, metric)
             raised == d.result.kind # "distance"
         IN  /\ cache' = d.cache
             /\ encodeCalls' = d.calls
             /\ embedded' = IF d.fetched = <<>> THEN embedded
                            ELSE embedded \cup {text1, text2}
             /\ handedOut' =
                  IF d.fetched = <<>> THEN handedOut
                  ELSE [t \in EmbTexts |->
                          handedOut[t]
                          \cup (IF t = text1 THEN {d.fetched[1].obj} ELSE {})
                          \cup (IF t = text2 THEN {d.fetched[2].obj} ELSE {})]
             /\ lastCall' = [op |-> "calculate_distance", text1 |-> text1,
                             text2 |-> text2, metric |-> metric]
             /\ lastResult' = d.result
             /\ measured' = IF raised THEN measured
                            ELSE measured \cup {[text1 |-> text1, text2 |-> text2,
                                                 metric |-> metric,
                                                 value |-> d.result.value]}
    /\ opCount' = opCount + 1
    /\ UNCHANGED <<pipeVars, injVars, genVars, loadVars, rateVars, skillVars, thVars, runVars>>

\* a call batch_calculate_distances(text_pairs, metric) from outside
CallBatchCalculateDistances ==
    /\ opCount \in 0..(MaxOps - 1)
    /\ \E text_pairs \in PairLists, metric \in Metrics :
         LET b == BatchCalculateDistances(cache, encodeCalls, text_pairs, metric)
             done == 1..Len(b.fetched)
         IN  /\ cache' = b.cache
             /\ encodeCalls' = b.calls
             /\ embedded' = embedded \cup UNION { {text_pairs[i][1], text_pairs[i][2]} :
                                                    i \in done }
             /\ handedOut' =
                  [t \in EmbTexts |->
                     handedOut[t]
                     \cup {b.fetched[i][1].obj : i \in {j \in done : text_pairs[j][1] = t}}
                     \cup {b.fetched[i][2].obj : i \in {j \in done : text_pairs[j][2] = t}}]
             /\ lastCall' = [op |-> "batch_calculate_distances", text1 |-> "",
                             text2 |-> "", metric |-> metric]
             /\ lastResult' = b.result
             /\ measured' = IF b.result.kind # "distances" THEN measured
                            ELSE measured
                                 \cup {[text1 |-> text_pairs[i][1],
                                        text2 |-> text_pairs[i][2],
                                        metric |-> metric,
                                        value |-> b.result.value[i]] : i \in done}
    /\ opCount' = opCount + 1
    /\ UNCHANGED <<pipeVars, injVars, genVars, loadVars, rateVars, skillVars, thVars, runVars>>

EmbNext == CallGetEmbedding \/ CallCalculateDistance \/ CallBatchCalculateDistances

(***************************************************************************)
(* Threads calling get_embedding on one SemanticAnalyzer (embeddings.py).  *)
(* The method takes no lock; the membership test, the encode call and the  *)
(* store are separate steps between which another thread can run.          *)
(***************************************************************************)
Threads == 1..NumThreads

NoEmbedding == [obj |-> 0, vec |-> <<>>]

\* an analyzer used before the threads start: nothing cached, or "b" cached
CachesBefore ==
    { EmptyCache, ("b" :> [obj |-> -1, vec |-> Encode("b")]) @@ EmptyCache }

ThInit ==
    /\ cache \in CachesBefore
    /\ encodeCalls = <<>>
    /\ embedded = {}
    /\ handedOut = [t \in EmbTexts |-> {}]
    /\ lastCall = NoCall
    /\ lastResult = NoOutcome
    /\ measured = {}
    /\ opCount = -1
    /\ th_pc = [i \in Threads |-> "check"]
    /\ th_text \in [Threads -> EmbTexts]
    /\ th_emb = [i \in Threads |-> NoEmbedding]
    /\ th_ret = [i \in Threads |-> NoEmbedding]

ThIdle ==
    /\ th_pc = <<>>
    /\ th_text = <<>>
    /\ th_emb = <<>>
    /\ th_ret = <<>>

\* lines 34-35: the text is in the cache and the cached object is returned
ThHit ==
    \E i \in Threads :
        /\ th_pc[i] = "check"
        /\ th_text[i] \in DOMAIN cache
        /\ th_ret' = [th_ret EXCEPT ![i] = cache[th_text[i]]]
        /\ th_pc' = [th_pc EXCEPT ![i] = "done"]
        /\ UNCHANGED <<th_text, th_emb, embVars>>
        /\ UNCHANGED <<pipeVars, injVars, genVars, loadVars, rateVars, skillVars, runVars>>

\* line 34: the text is not in the cache
ThMiss ==
    \E i \in Threads :
        /\ th_pc[i] = "check"
        /\ th_text[i] \notin DOMAIN cache
        /\ th_pc' = [th_pc EXCEPT ![i] = "encode"]
        /\ UNCHANGED <<th_text, th_emb, th_ret, embVars>>
        /\ UNCHANGED <<pipeVars, injVars, genVars, loadVars, rateVars, skillVars, runVars>>

\* line 38: self.model.encode(text) makes a new vector object
ThEncode ==
    \E i \in Threads :
        /\ th_pc[i] = "encode"
        /\ th_emb' = [th_emb EXCEPT ![i] = [obj |-> Len(encodeCalls) + 1,
                                            vec |-> Encode(th_text[i])]]
        /\ encodeCalls' = Append(encodeCalls, th_text[i])
        /\ th_pc' = [th_pc EXCEPT ![i] = "store"]
        /\ UNCHANGED <<th_text, th_ret>>
        /\ UNCHANGED <<cache, embedded, handedOut, lastCall, lastResult, measured,
                       opCount>>
        /\ UNCHANGED <<pipeVars, injVars, genVars, loadVars, rateVars, skillVars, runVars>>

\* line 41: self.cache[text] = embedding, over whatever is there
ThStore ==
    \E i \in Threads :
        /\ th_pc[i] = "store"
        /\ cache' = (th_text[i] :> th_emb[i]) @@ cache
        /\ th_pc' = [th_pc EXCEPT ![i] = "return"]
        /\ UNCHANGED <<th_text, th_emb, th_ret>>
        /\ UNCHANGED <<encodeCalls, embedded, handedOut, lastCall, lastResult,
                       measured, opCount>>
        /\ UNCHANGED <<pipeVars, injVars, genVars, loadVars, rateVars, skillVars, runVars>>

\* line 43: return embedding
ThReturn ==
    \E i \in Threads :
        /\ th_pc[i] = "return"
        /\ th_ret' = [th_ret EXCEPT ![i] = th_emb[i]]
        /\ th_pc' = [th_pc EXCEPT ![i] = "done"]
        /\ UNCHANGED <<th_text, th_emb, embVars>>
        /\ UNCHANGED <<pipeVars, injVars, genVars, loadVars, rateVars, skillVars, runVars>>

ThNext == ThHit \/ ThMiss \/ ThEncode \/ ThStore \/ ThReturn

(***************************************************************************)
(* TestCaseGenerator.__init__ and _load_base_sentences (generator.py)      *)
(***************************************************************************)
\* `sub in line`
Contains(line, sub) ==
    \E i \in 1..(Len(line) - Len(sub) + 1) : SubSeq(line, i, i + Len(sub) - 1) = sub

\* line.rindex(c), as a 1-based position
RIndex(line, c) == SetMax({i \in 1..Len(line) : line[i] = c})

WordsAnnotation == <<"w", "o", "r", "d", "s", ")">>

\* lines 43-49: what one line of the file adds to `sentences`
SentenceOfLine(raw) ==
    LET line == Strip(raw)
    IN  IF line # <<>> /\ line[1] # "#"
          THEN IF Contains(line, <<"(">>) /\ Contains(line, WordsAnnotation)
                 THEN << Strip(SubSeq(line, 1, RIndex(line, "(") - 1)) >>
                 ELSE << line >>
          ELSE <<>>

\* the lines a base-sentence file is made of: blank; a comment; an indented
\* comment; a sentence; a sentence with its word-count annotation; an
\* annotation alone
FileLines ==
    { <<"\n">>,
      <<"#", " ", "c", "\n">>,
      <<" ", "#", "c", "\n">>,
      <<"a", "b", ".", " ", "a", "\n">>,
      <<"z", "z", "z", " ", "(", "1", " ", "w", "o", "r", "d", "s", ")", "\n">>,
      <<"(", "0", " ", "w", "o", "r", "d", "s", ")", "\n">> }

MissingFile == [exists |-> FALSE, lines |-> <<>>]

Files ==
    {MissingFile}
    \cup UNION { {[exists |-> TRUE, lines |-> q] : q \in [1..n -> FileLines]} :
                   n \in 0..MaxLines }

LoadInit ==
    /\ load_pc = "open"
    /\ file \in Files
    /\ line_no = 0
    /\ sentences = <<>>
    /\ load_error = "none"

LoadIdle ==
    /\ load_pc = "idle"
    /\ file = MissingFile
    /\ line_no = 0
    /\ sentences = <<>>
    /\ load_error = "none"

\* line 41: open() raises for a file that is not there; __init__ lets it pass
LoadOpenFails ==
    /\ load_pc = "open"
    /\ ~file.exists
    /\ load_error' = "FileNotFoundError"
    /\ load_pc' = "failed"
    /\ UNCHANGED <<file, line_no, sentences>>
    /\ UNCHANGED <<pipeVars, injVars, genVars, rateVars, embVars, skillVars, thVars, runVars>>

\* lines 40-41: the file is opened
LoadOpen ==
    /\ load_pc = "open"
    /\ file.exists
    /\ load_pc' = "reading"
    /\ UNCHANGED <<file, line_no, sentences, load_error>>
    /\ UNCHANGED <<pipeVars, injVars, genVars, rateVars, embVars, skillVars, thVars, runVars>>

\* lines 42-49: one line of the file
LoadLine ==
    /\ load_pc = "reading"
    /\ line_no < Len(file.lines)
    /\ sentences' = sentences \o SentenceOfLine(file.lines[line_no + 1])
    /\ line_no' = line_no + 1
    /\ UNCHANGED <<load_pc, file, load_error>>
    /\ UNCHANGED <<pipeVars, injVars, genVars, rateVars, embVars, skillVars, thVars, runVars>>

\* line 50 and __init__ lines 35-36: the list is returned and kept as
\* self.base_sentences; the generator is constructed
LoadReturn ==
    /\ load_pc = "reading"
    /\ line_no = Len(file.lines)
    /\ base_sentences' = sentences
    /\ load_pc' = "constructed"
    /\ UNCHANGED <<file, line_no, sentences, load_error>>
    /\ UNCHANGED <<gen_pc, error_rates, sentence_i, rate_i, next_test_id, generated>>
    /\ UNCHANGED <<pipeVars, injVars, rateVars, embVars, skillVars, thVars, runVars>>

LoadNext == LoadOpenFails \/ LoadOpen \/ LoadLine \/ LoadReturn

(***************************************************************************)
(* Claims about inject_errors, checked under SpecInject.                   *)
(***************************************************************************)
\* the length of a word with at most one trailing punctuation character removed
BareLen(word) ==
    IF word # <<>> /\ word[Len(word)] \in Punctuation THEN Len(word) - 1 ELSE Len(word)

C8_WordCountPreserved ==
    inj_pc = "done" =>
        LET N == Len(Split(text))
        IN  N >= 1 =>
              /\ Len(Split(inj_ret.text)) = N
              /\ Cardinality(selected) >= 1

C8_Witness ==
    /\ inj_pc = "done"
    /\ Cardinality(selected) = 2
    /\ LET InWords == Split(text)
           OutWords == Split(inj_ret.text)
       IN  /\ Len(InWords) = 3
           /\ \E i \in 1..3 : Len(OutWords[i]) < Len(InWords[i])
           /\ \E i \in 1..3 : Len(OutWords[i]) > Len(InWords[i])

\* C9: a word shorter than 3 characters once at most one trailing
\* punctuation character is set aside comes back unchanged, punctuation
\* included, even when its index is selected; so does every word whose index
\* is not selected.
C9_ShortWordsUnchanged ==
    inj_pc = "done" =>
        LET InWords == Split(text)
            OutWords == Split(inj_ret.text)
        IN  /\ Len(OutWords) = Len(InWords)
            /\ \A i \in 1..Len(InWords) :
                  (BareLen(InWords[i]) < 3 \/ (i - 1) \notin selected)
                     => OutWords[i] = InWords[i]

C9_Witness ==
    /\ inj_pc = "done"
    /\ LET InWords == Split(text)
           OutWords == Split(inj_ret.text)
       IN  /\ Len(InWords) = 3
           /\ \E i \in 1..3 :
                 /\ (i - 1) \in selected
                 /\ Len(InWords[i]) = 3
                 /\ BareLen(InWords[i]) = 2
           /\ \E i \in 1..3 : OutWords[i] # InWords[i]
           /\ \E i \in 1..3 : (i - 1) \notin selected

\* C11: the returned count does not include a selected word that was left
\* unmodified for being too short: it is the number of selected words of 3
\* or more characters once the trailing punctuation character is set aside.
C11_SkippedNotCounted ==
    inj_pc = "done" =>
        LET InWords == Split(text)
        IN  inj_ret.count =
              Cardinality({i \in selected : BareLen(InWords[i + 1]) >= 3})

\* C12: whenever inject_errors reports a count above 0, the returned text
\* differs from the argument.
C12_ReportedErrorsChangeText ==
    (inj_pc = "done" /\ inj_ret.count > 0) => inj_ret.text # text

(***************************************************************************)
(* Claims about generate_test_cases, checked under SpecGen.                *)
(***************************************************************************)
\* C10: every TestCase of generate_test_cases has
\* num_errors == actual_error_rate * word_count: the reported num_errors is
\* the number of word positions at which corrupted differs from original.
C10_NumErrorsIsDiffCount ==
    \A k \in 1..Len(generated) :
        LET tc == generated[k]
        IN  tc.num_errors * tc.actual_error_rate.den
              = tc.actual_error_rate.num * tc.word_count

C14_IdsCountFromZero ==
    /\ \A k \in 1..Len(generated) : generated[k].id = k - 1
    /\ \A k \in 1..Len(generated) :
          generated[k].id < Len(error_rates)
             <=> generated[k].original = base_sentences[1]

\* C27: for every TestCase made from a non-empty sentence the number of word
\* positions at which corrupted differs from original is at most num_errors
\* (actual_error_rate * word_count <= num_errors), and num_errors is at most
\* word_count.
C27_DifferingAtMostNumErrors ==
    \A k \in 1..Len(generated) :
        LET tc == generated[k]
            o == Split(tc.original)
            c == Split(tc.corrupted)
            differing == {i \in 1..Min2(Len(o), Len(c)) : o[i] # c[i]}
        IN  Len(o) >= 1 =>
              /\ Cardinality(differing) <= tc.num_errors
              /\ tc.actual_error_rate.num * tc.word_count
                    <= tc.num_errors * tc.actual_error_rate.den
              /\ tc.num_errors <= tc.word_count

C27_Witness ==
    \E k \in 1..Len(generated) :
        /\ generated[k].word_count = 2
        /\ generated[k].num_errors = 1
        /\ generated[k].actual_error_rate = [num |-> 1, den |-> 2]
        /\ Len(Split(generated[k].original)[1]) >= 3
        /\ Len(Split(generated[k].original)[2]) >= 3

(***************************************************************************)
(* Claims about reproducibility, checked under SpecRuns.                   *)
(***************************************************************************)
\* C23: two runs that construct a TestCaseGenerator with the same seed over
\* the same base sentences and make the same generate_test_cases calls, with
\* no other draw from the random source in between, produce identical
\* sequences of test cases.
C23_SameSeedSameCases ==
    (run_pc[1] = "done" /\ run_pc[2] = "done" /\ ~run_foreign)
        => run_out[1] = run_out[2]

C23_Witness ==
    /\ run_pc[1] = "done"
    /\ run_pc[2] = "done"
    /\ ~run_foreign
    /\ run_rounds = 2
    /\ Len(run_out[2]) >= 4
    /\ \E k \in 1..Len(run_out[2]) :
          /\ run_out[2][k].num_errors = 1
          /\ run_out[2][k].actual_error_rate = [num |-> 1, den |-> 2]
    /\ \E k \in 1..Len(run_out[2]) : run_out[2][k].corrupted # run_out[2][k].original

\* C28: what an ErrorInjector's inject_errors calls return depends only on
\* its seed and its own calls: constructing or using another ErrorInjector
\* between two of its calls does not change the corrupted text it produces.
C28_OtherInjectorsDoNotInterfere ==
    (run_pc[1] = "done" /\ run_pc[2] = "done")
        => \A k \in 1..Len(run_out[1]) :
              run_out[2][k].corrupted = run_out[1][k].corrupted

(***************************************************************************)
(* Claims about the construction of a TestCaseGenerator, checked under     *)
(* SpecLoad.                                                               *)
(***************************************************************************)
\* C15: constructing a TestCaseGenerator fails when the base-sentence file
\* is missing and also when it holds no sentence once blank and comment
\* lines are skipped: no generator with zero base sentences is produced.
C15_MissingOrEmptyFails ==
    /\ load_pc = "constructed" => (file.exists /\ base_sentences # <<>>)
    /\ load_pc = "failed" => load_error # "none"

\* C29: every base sentence loaded by _load_base_sentences has at least one
\* word and does not start with '#', whatever the file holds, lines made of a
\* word-count annotation alone included.
C29_LoadedSentencesNonEmpty ==
    \A i \in 1..Len(sentences) :
        /\ Split(sentences[i]) # <<>>
        /\ sentences[i][1] # "#"

(***************************************************************************)
(* Claims about calculate_actual_error_rate, checked under SpecRate.       *)
(***************************************************************************)
\* C16: calculate_actual_error_rate fails for no pair of texts: for word
\* lists of equal length it returns the fraction of positions that differ
\* (0.0 for identical texts, two empty texts included), for lists of
\* different lengths min(len1, len2) / max(len1, len2).
C16_RateNeverFails ==
    rate_pc = "done" =>
        LET o == Split(rate_original)
            c == Split(rate_corrupted)
            differing == {i \in 1..Min2(Len(o), Len(c)) : o[i] # c[i]}
            shorter == IF Len(o) < Len(c) THEN Len(o) ELSE Len(c)
            longer == IF Len(o) < Len(c) THEN Len(c) ELSE Len(o)
        IN  /\ rate_ret # ZeroDivisionError
            /\ rate_ret.den > 0
            /\ (Len(o) = Len(c) /\ Len(o) > 0) =>
                  rate_ret.num * Len(o) = Cardinality(differing) * rate_ret.den
            /\ rate_original = rate_corrupted => rate_ret.num = 0
            /\ (Len(o) = 0 /\ Len(c) = 0) => rate_ret.num = 0
            /\ Len(o) # Len(c) => rate_ret.num * longer = shorter * rate_ret.den

C16_Witness ==
    /\ rate_pc = "done"
    /\ Len(Split(rate_original)) = 2
    /\ Len(Split(rate_corrupted)) = 1
    /\ rate_ret = [num |-> 1, den |-> 2]

(***************************************************************************)
(* Claims about the SemanticAnalyzer, checked under SpecEmbed.             *)
(***************************************************************************)
\* C17: after any sequence of get_embedding and distance calls the cache
\* holds exactly one entry per distinct text embedded so far, an entry once
\* written is never removed or replaced, the model was invoked exactly once
\* per distinct text, and every get_embedding call for a text returned the
\* one cached vector object.
C17_CacheOncePerText ==
    /\ DOMAIN cache = embedded
    /\ Len(encodeCalls) = Cardinality(embedded)
    /\ \A t \in embedded :
          /\ Cardinality({i \in 1..Len(encodeCalls) : encodeCalls[i] = t}) = 1
          /\ encodeCalls[cache[t].obj] = t
          /\ handedOut[t] = {cache[t].obj}
    /\ \A t \in EmbTexts \ embedded : handedOut[t] = {}
    /\ lastResult.kind = "vector" => lastResult.value = cache[lastCall.text1]

C17_Witness ==
    /\ opCount = 3
    /\ Cardinality(embedded) = 1
    /\ measured # {}
    /\ lastCall.op = "get_embedding"
    /\ Len(encodeCalls) = 1

\* C18: calculate_distance with a metric other than the supported ones
\* (cosine, euclidean) raises an invalid-argument error whose message names
\* the metric given, for any pair of texts.
C18_UnknownMetricRaises ==
    (lastCall.op = "calculate_distance"
       /\ lastCall.metric \notin {"cosine", "euclidean"})
    => /\ lastResult.kind = "ValueError"
       /\ \E i \in 1..Len(lastResult.message) :
             lastResult.message[i] = lastCall.metric

C18_Witness ==
    /\ lastCall.op = "calculate_distance"
    /\ lastCall.metric = "invalid_metric"
    /\ lastCall.text1 # lastCall.text2
    /\ lastResult.kind = "ValueError"
    /\ opCount = 2

\* C19: distance(a, b) = distance(b, a) for every pair of texts and for the
\* cosine and the Euclidean metric, whichever of a, b was cached first and
\* whatever calls came before.
C19_DistanceSymmetric ==
    \A m1 \in measured, m2 \in measured :
        (m1.text1 = m2.text2 /\ m1.text2 = m2.text1 /\ m1.metric = m2.metric)
           => m1.value = m2.value

C19_Witness ==
    \E m1 \in measured, m2 \in measured :
        /\ m1.text1 # m1.text2
        /\ m1.text1 = m2.text2
        /\ m1.text2 = m2.text1
        /\ m1.metric = m2.metric
        /\ m1.metric = "cosine"
        /\ encodeCalls = <<m1.text2, m1.text1>>
        /\ lastCall = [op |-> "calculate_distance", text1 |-> m1.text1,
                       text2 |-> m1.text2, metric |-> m1.metric]
        /\ opCount = 3

\* C20: calculate_distance accepts each of the metrics cosine, euclidean and
\* manhattan and returns a distance for it; only other metric names are
\* rejected.
C20_ManhattanAccepted ==
    lastCall.op = "calculate_distance" =>
        (lastCall.metric \in {"cosine", "euclidean", "manhattan"}
            <=> lastResult.kind = "distance")


\* C30: a calculate_distance or batch_calculate_distances call that fails
\* because of an unrecognized metric leaves the embedding cache as it was and
\* invokes no encode, also when neither text was cached before.
C30_FailedCallLeavesCache ==
    [][ ( /\ opCount' = opCount + 1
          /\ lastCall'.op \in {"calculate_distance", "batch_calculate_distances"}
          /\ lastResult'.kind = "ValueError" )
        => /\ cache' = cache
           /\ encodeCalls' = encodeCalls ]_vars

C30_Witness ==
    /\ lastCall.op = "batch_calculate_distances"
    /\ lastResult = UnknownMetric("manhattan")
    /\ cache = EmptyCache
    /\ encodeCalls = <<>>
    /\ opCount = 2

(***************************************************************************)
(* Claims about concurrent callers of get_embedding, checked under         *)
(* SpecThreads.                                                            *)
(***************************************************************************)
\* C24: when two threads call get_embedding with the same uncached string at
\* the same time, encode is invoked at most once for that string, and both
\* callers receive the single object the cache ends with.
C24_OneEncodePerText ==
    \A i \in Threads, j \in Threads :
        (i # j /\ th_text[i] = th_text[j]) =>
            /\ Cardinality({k \in 1..Len(encodeCalls) : encodeCalls[k] = th_text[i]}) <= 1
            /\ (th_pc[i] = "done" /\ th_pc[j] = "done") =>
                  /\ th_ret[i] = th_ret[j]
                  /\ cache[th_text[i]] = th_ret[i]

(***************************************************************************)
(* Claims about the pipeline, checked under Spec.                          *)
(***************************************************************************)
Succeeded(r) == r.metadata.success = TRUE

\* out is raw without its leading and trailing whitespace, stated without Strip
IsTrimOf(out, raw) ==
    /\ out # <<>> => (out[1] \notin Whitespace /\ out[Len(out)] \notin Whitespace)
    /\ \E lead \in 0..Len(raw) :
        /\ lead + Len(out) <= Len(raw)
        /\ SubSeq(raw, lead + 1, lead + Len(out)) = out
        /\ \A i \in (1..lead) \cup ((lead + Len(out) + 1)..Len(raw)) :
              raw[i] \in Whitespace

\* C1: process_batch returns exactly one result per input test case, in input
\* order: result i carries the id of test case i, whatever requests succeed
\* or raise; nothing is dropped or duplicated.
C1_OneResultPerInput ==
    /\ idx <= Len(test_cases)
    /\ Len(results) \in {idx - 1, idx}
    /\ pc \in {"batch_loop", "batch_done"} => Len(results) = idx
    /\ pc = "batch_done" => Len(results) = Len(test_cases)
    /\ \A i \in 1..Len(results) : results[i].test_id = test_cases[i].id

C1_Witness ==
    /\ pc = "batch_done"
    /\ Len(results) = 2
    /\ ~Succeeded(results[1])
    /\ Succeeded(results[2])

\* C2: in a batch where every request made for item K raises and the
\* requests of the other items succeed, N results are returned, K's result
\* has success == false and the others have success == true.
C2_RefusedItemFails ==
    /\ pc = "batch_done" => Len(results) = Len(test_cases)
    /\ \A i \in 1..Len(results) :
        /\ i \in outage => ~Succeeded(results[i])
        /\ ~itemSaw[i].raised => Succeeded(results[i])

\* what holds of the code: the same with a retry budget of at least one request
C2_HoldsWithBudget == max_retries >= 1 => C2_RefusedItemFails

\* C3: when a stage of process exhausts its retries, process returns a
\* result with success == false; no exception reaches the caller of process.
C3_ProcessDoesNotPropagate == pc # "process_raised"

\* C4: with max_retries >= 1 and every request of a stage raising,
\* _call_agent issues exactly max_retries requests, sleeps 2^attempt after
\* each failed attempt but the last, then raises an error naming the stage
\* and the number of attempts; it returns no value.
C4_ExhaustedStageRaises ==
    /\ pc = "calling" =>
        /\ attempt < max_retries
        /\ nCalls = attempt
        /\ Len(sleeps) = attempt
    /\ pc \in {"calling", "process_raised"} =>
        \A i \in 1..Len(sleeps) : sleeps[i] = [kind |-> "backoff", t |-> 2 ^ (i - 1)]
    /\ pc = "process_raised" =>
        /\ max_retries >= 1
        /\ nCalls = max_retries
        /\ Len(sleeps) = max_retries - 1
        /\ error = [agent |-> agent, attempts |-> nCalls]
        /\ Len(stageOut) = agent - 1

C4_Witness ==
    /\ pc = "process_raised"
    /\ agent = 2
    /\ nCalls = 3
    /\ Len(sleeps) = 2

\* C5: a stage whose request raises exactly k times (k <= max_retries - 1)
\* and is then answered returns the trimmed response text after exactly
\* k + 1 requests, and the sleeps between consecutive attempts are strictly
\* increasing.
C5_RetryThenSuccess ==
    (pc = "agent_returned" /\ nCalls >= 1) =>
        LET k == nCalls - 1 IN
        /\ attempt = k
        /\ k <= max_retries - 1
        /\ IsTrimOf(ret, response)
        /\ stageOut[Len(stageOut)] = ret
        /\ Len(sleeps) = k + 1
        /\ sleeps[k + 1].kind = "rate_limit"
        /\ \A i \in 1..k : sleeps[i].kind = "backoff"
        /\ \A i \in 1..(k - 1) : sleeps[i].t < sleeps[i + 1].t

C5_Witness ==
    /\ pc = "agent_returned"
    /\ max_retries = 3
    /\ nCalls = 3
    /\ response # ret
    /\ Len(sleeps) = 3

\* C6: on full success the stages run in the order agent1, agent2, agent3;
\* stage 1 is given the input text, stage 2 the output of stage 1, stage 3
\* the output of stage 2; the result carries the input text, the three
\* outputs, the given test_id and success == true.
C6_StagesChained ==
    /\ Len(order) <= 3
    /\ Len(stageOut) \in {Len(order) - 1, Len(order)}
    /\ \A i \in 1..Len(order) :
        /\ order[i].agent = i
        /\ order[i].content = IF i = 1 THEN english_input ELSE stageOut[i - 1]
    /\ pc = "process_returned" => Len(stageOut) = 3
    /\ (pc = "batch_loop" /\ idx >= 1 /\ Succeeded(results[idx])) =>
        /\ Len(stageOut) = 3
        /\ results[idx].test_id = test_cases[idx].id
        /\ results[idx].original = test_cases[idx].corrupted
        /\ results[idx].french = stageOut[1]
        /\ results[idx].hebrew = stageOut[2]
        /\ results[idx].final = stageOut[3]

C6_Witness ==
    /\ pc = "batch_loop"
    /\ idx = 2
    /\ Len(results) = 2
    /\ Succeeded(results[2])
    /\ procCalls > 3
    /\ results[2].french # results[2].hebrew
    /\ results[2].hebrew # results[2].final

\* C21: every result of process_batch, of a succeeded and of a failed item
\* alike, carries a copy of its test case's identifying fields (id, clean
\* original, target and actual error rate, word count).
C21_EveryResultHasTestCase ==
    \A i \in 1..Len(results) :
        /\ "test_case" \in DOMAIN results[i]
        /\ results[i].test_case.id = test_cases[i].id
        /\ results[i].test_case.original_clean = test_cases[i].original
        /\ results[i].test_case.target_error_rate = test_cases[i].target_error_rate
        /\ results[i].test_case.actual_error_rate = test_cases[i].actual_error_rate
        /\ results[i].test_case.word_count = test_cases[i].word_count

\* C25: within one process call a request is issued for a stage only when
\* no stage of that call has exhausted its retries and every earlier stage
\* has returned; once a stage exhausts its retries no later stage is
\* entered; a process call issues at most 3 * max_retries requests.
C25_NoStageAfterExhaustion ==
    /\ procCalls <= 3 * max_retries
    /\ pc = "calling" =>
          /\ error = NoError
          /\ Len(stageOut) = agent - 1
          /\ procCalls < agent * max_retries
    /\ error # NoError =>
          /\ pc \in {"process_raised", "batch_loop", "batch_done"}
          /\ error.agent = agent
          /\ Len(order) = agent
          /\ Len(stageOut) = agent - 1
          /\ procCalls <= agent * max_retries

C25_Witness ==
    /\ pc = "batch_loop"
    /\ idx = 1
    /\ Len(results) = 1
    /\ ~Succeeded(results[1])
    /\ max_retries = 3
    /\ error.agent = 2
    /\ procCalls = 4

\* C26: for every retry budget max_retries >= 0 a _call_agent that returns
\* has issued at least one request and returns the trimmed text of an
\* answered request; a stage never reports success without one.
C26_ReturnMeansAnswered ==
    pc = "agent_returned" =>
        /\ nCalls >= 1
        /\ itemSaw[idx].ok
        /\ ret = Strip(response)

(***************************************************************************)
(* Claims about the construction of the pipeline, checked under SpecSkills.*)
(***************************************************************************)
\* C22: a missing skill file of a configured stage is fatal at once: the
\* construction of the pipeline fails, and no request is ever sent for a
\* stage whose instruction text could not be loaded.
C22_MissingSkillIsFatal ==
    /\ skill_pc = "constructed" => \A a \in AgentNames : agent_files[a].exists
    /\ \A i \in 1..Len(requests) : agent_files[requests[i].agent].exists


PipeIdle ==
    /\ max_retries = 0
    /\ outage = {}
    /\ test_cases = <<>>
    /\ results = <<>>
    /\ idx = 0
    /\ pc = "idle"
    /\ agent = 0
    /\ attempt = 0
    /\ input_text = NoText
    /\ english_input = NoText
    /\ test_id = 0
    /\ french = NoText
    /\ hebrew = NoText
    /\ final_english = NoText
    /\ ret = NoText
    /\ error = NoError
    /\ response = NoText
    /\ nCalls = 0
    /\ sleeps = <<>>
    /\ order = <<>>
    /\ stageOut = <<>>
    /\ procCalls = 0
    /\ itemSaw = <<>>

(***************************************************************************)
(* The specifications.                                                     *)
(***************************************************************************)
\* process_batch over a list of test cases
Init == PipeInit /\ InjIdle /\ GenIdle /\ LoadIdle /\ RateIdle /\ EmbIdle /\ SkillIdle /\ ThIdle /\ RunIdle
Next == PipeNext
Spec == Init /\ [][Next]_vars

\* one call of inject_errors
InitInject == InjInit /\ PipeIdle /\ GenIdle /\ LoadIdle /\ RateIdle /\ EmbIdle /\ SkillIdle /\ ThIdle /\ RunIdle
NextInject == InjectErrors
SpecInject == InitInject /\ [][NextInject]_vars

\* one call of generate_test_cases
InitGen == GenInit /\ PipeIdle /\ InjIdle /\ LoadIdle /\ RateIdle /\ EmbIdle /\ SkillIdle /\ ThIdle /\ RunIdle
NextGen == GenNext
SpecGen == InitGen /\ [][NextGen]_vars

\* one construction of a TestCaseGenerator
InitLoad == LoadInit /\ PipeIdle /\ InjIdle /\ GenIdle /\ RateIdle /\ EmbIdle /\ SkillIdle /\ ThIdle /\ RunIdle
NextLoad == LoadNext
SpecLoad == InitLoad /\ [][NextLoad]_vars

\* one call of calculate_actual_error_rate
InitRate == RateInit /\ PipeIdle /\ InjIdle /\ GenIdle /\ LoadIdle /\ EmbIdle /\ SkillIdle /\ ThIdle /\ RunIdle
NextRate == CalculateRate
SpecRate == InitRate /\ [][NextRate]_vars

\* a sequence of calls on one SemanticAnalyzer
InitEmbed == EmbInit /\ PipeIdle /\ InjIdle /\ GenIdle /\ LoadIdle /\ RateIdle /\ SkillIdle /\ ThIdle /\ RunIdle
NextEmbed == EmbNext
SpecEmbed == InitEmbed /\ [][NextEmbed]_vars

\* the construction of a TranslationPipeline and the requests of one process call
InitSkills == SkillInit /\ PipeIdle /\ InjIdle /\ GenIdle /\ LoadIdle /\ RateIdle /\ EmbIdle /\ ThIdle /\ RunIdle
NextSkills == SkillNext
SpecSkills == InitSkills /\ [][NextSkills]_vars

\* threads inside get_embedding on one SemanticAnalyzer
InitThreads == ThInit /\ PipeIdle /\ InjIdle /\ GenIdle /\ LoadIdle /\ RateIdle /\ SkillIdle /\ RunIdle
NextThreads == ThNext
SpecThreads == InitThreads /\ [][NextThreads]_vars

\* two runs of the generator with the same seed, sentences and calls
InitRuns == RunInit /\ PipeIdle /\ InjIdle /\ GenIdle /\ LoadIdle /\ RateIdle /\ EmbIdle /\ SkillIdle /\ ThIdle
NextRuns == RunNext
SpecRuns == InitRuns /\ [][NextRuns]_vars

====
